---- MODULE Spec2Model ----
(***************************************************************************)
(* TNClient (src/src/trufnetwork_sdk_py/client.py): a facade over the      *)
(* compiled client truf_sdk.  The model records, for the call in progress, *)
(* every call the facade makes on truf_sdk (as a recording test double     *)
(* would), the reply truf_sdk gave, and what the facade returned or        *)
(* raised.  Replies of truf_sdk are chosen by the environment.             *)
(*                                                                         *)
(* Python values: a scalar is [t |-> python type, v |-> value]; an         *)
(* Optional[str] is <<>> for None and <<s>> for the string s; a dict is a  *)
(* function from its keys; a list is a sequence.                           *)
(***************************************************************************)
EXTENDS Integers, Sequences, FiniteSets, TLC

VARIABLES request, trace, result, ncalls, submits, localErrors

vars == <<request, trace, result, ncalls, submits, localErrors>>

(* ------------------------------ bounds --------------------------------- *)
MaxCalls == 3
MaxRows == 2
MaxCols == 2
MaxCells == 4
MaxRecords == 2
MaxGoRecords == 2

(* --------------------------- python values ----------------------------- *)
PyStr(s) == [t |-> "str", v |-> s]
PyFloat(x) == [t |-> "float", v |-> x]
PyInt(x) == [t |-> "int", v |-> x]

None == <<>>
Some(s) == <<s>>

Scalars == {PyStr("a"), PyStr("b"), PyFloat("1.5"), PyInt("2")}

RowsUpTo(n) == UNION {[1..k -> Scalars] : k \in 0..n}

RECURSIVE Cells(_)
Cells(args) == IF args = <<>> THEN 0 ELSE Len(Head(args)) + Cells(Tail(args))

\* the matrices of at most MaxRows rows, MaxCols columns and MaxCells scalars
Matrices ==
    {args \in UNION {[1..m -> RowsUpTo(MaxCols)] : m \in 0..MaxRows} :
        Cells(args) <= MaxCells}

DateScalars == {PyStr("2024-01-01"), PyStr("2024-01-02")}
ValueScalars == {PyFloat("1.5"), PyInt("2")}

Dicts ==
    {[date |-> d, value |-> x] : d \in DateScalars, x \in ValueScalars}
    \cup {[date |-> d] : d \in DateScalars}
    \cup {[value |-> x] : x \in ValueScalars}

RecordLists == UNION {[1..n -> Dicts] : n \in 0..MaxRecords}

StreamIds == {"st-1"}
StreamTypes == {"StreamTypePrimitive", "StreamTypeComposed"}
Procedures == {"proc"}
OptStrings == {None, Some(""), Some("x")}

(* ----------------------- replies of truf_sdk --------------------------- *)
Hashes == {"0xaa", "0xbb"}

Raises == [raised |-> TRUE, ret |-> "raise"]
Replies(v) == [raised |-> FALSE, ret |-> v]

SubmitReplies == {Raises} \cup {Replies(h) : h \in Hashes}
WaitReplies == {Raises, Replies("None")}
ExistsReplies == {Raises, Replies(TRUE), Replies(FALSE)}

\* a Go map as the binding exposes it: its items() in iteration order
FieldNames == {"DateValue", "Value"}
FieldValues == {"x", "y"}
GoMaps ==
    {m \in UNION {[1..k -> FieldNames \X FieldValues] : k \in 0..Cardinality(FieldNames)} :
        \A i, j \in DOMAIN m : i # j => m[i][1] # m[j][1]}
GoSlices == UNION {[1..n -> GoMaps] : n \in 0..MaxGoRecords}
RecordsReplies == {[raised |-> TRUE, ret |-> <<>>]} \cup {Replies(s) : s \in GoSlices}

(* ------------------------- recording helpers --------------------------- *)
Call(fn, args, reply) ==
    [fn |-> fn, args |-> args, raised |-> reply.raised, ret |-> reply.ret]

Return(v) == [kind |-> "return", val |-> v]
Raise(e, by) == [kind |-> "raise", err |-> e, from |-> by]
Outcome(t, r) == [trace |-> t, result |-> r]

(* ---------------------------- go slices -------------------------------- *)
Slice_string(xs) == [i \in DOMAIN xs |-> xs[i].v]
Slice_float64(xs) == [i \in DOMAIN xs |-> xs[i].v]

(* ---------------------------- the facade ------------------------------- *)

\* deploy_stream waiting for confirmation whatever the wait flag says
deploy_stream_AlwaysWaits(stream_id, stream_type, wait, sub, w) ==
    LET c1 == Call("DeployStream", <<stream_id, stream_type>>, sub)
        c2 == Call("WaitForTx", <<sub.ret>>, w)
    IN  IF sub.raised THEN Outcome(<<c1>>, Raise("GoError", "DeployStream"))
        ELSE IF w.raised THEN Outcome(<<c1, c2>>, Raise("GoError", "WaitForTx"))
        ELSE Outcome(<<c1, c2>>, Return(sub.ret))

deploy_stream(stream_id, stream_type, wait, sub, w) ==
    LET c1 == Call("DeployStream", <<stream_id, stream_type>>, sub)
        c2 == Call("WaitForTx", <<sub.ret>>, w)
    IN  IF sub.raised THEN Outcome(<<c1>>, Raise("GoError", "DeployStream"))
        ELSE IF wait
             THEN IF w.raised THEN Outcome(<<c1, c2>>, Raise("GoError", "WaitForTx"))
                  ELSE Outcome(<<c1, c2>>, Return(sub.ret))
             ELSE Outcome(<<c1>>, Return(sub.ret))


\* the coercion formatting None instead of replacing it
NoneToEmpty_Formatted(opt) == IF opt = None THEN "None" ELSE opt[1]

NoneToEmpty(opt) == IF opt = None THEN "" ELSE opt[1]

stream_exists(stream_id, data_provider, reply) ==
    LET c1 == Call("StreamExists", <<stream_id, NoneToEmpty(data_provider)>>, reply)
    IN  IF reply.raised THEN Outcome(<<c1>>, Raise("GoError", "StreamExists"))
        ELSE Outcome(<<c1>>, Return(reply.ret))


\* init_stream waiting on the stream id instead of the transaction hash
init_stream_WaitsOnStreamId(stream_id, wait, sub, w) ==
    LET c1 == Call("InitStream", <<stream_id>>, sub)
        c2 == Call("WaitForTx", <<stream_id>>, w)
    IN  IF sub.raised THEN Outcome(<<c1>>, Raise("GoError", "InitStream"))
        ELSE IF wait
             THEN IF w.raised THEN Outcome(<<c1, c2>>, Raise("GoError", "WaitForTx"))
                  ELSE Outcome(<<c1, c2>>, Return(sub.ret))
             ELSE Outcome(<<c1>>, Return(sub.ret))

init_stream(stream_id, wait, sub, w) ==
    LET c1 == Call("InitStream", <<stream_id>>, sub)
        c2 == Call("WaitForTx", <<sub.ret>>, w)
    IN  IF sub.raised THEN Outcome(<<c1>>, Raise("GoError", "InitStream"))
        ELSE IF wait
             THEN IF w.raised THEN Outcome(<<c1, c2>>, Raise("GoError", "WaitForTx"))
                  ELSE Outcome(<<c1, c2>>, Return(sub.ret))
             ELSE Outcome(<<c1>>, Return(sub.ret))


\* the tail shared by the variants of insert_records below
SubmitRecords(stream_id, dates, values, wait, sub, w) ==
    LET c1 == Call("InsertRecords",
                   <<stream_id, Slice_string(dates), Slice_float64(values)>>, sub)
        c2 == Call("WaitForTx", <<sub.ret>>, w)
    IN  IF sub.raised THEN Outcome(<<c1>>, Raise("GoError", "InsertRecords"))
        ELSE IF wait
             THEN IF w.raised THEN Outcome(<<c1, c2>>, Raise("GoError", "WaitForTx"))
                  ELSE Outcome(<<c1, c2>>, Return(sub.ret))
             ELSE Outcome(<<c1>>, Return(sub.ret))

\* insert_records collecting the values in the opposite order of the dates
insert_records_ReversedValues(stream_id, records, wait, sub, w) ==
    IF \E i \in DOMAIN records : {"date", "value"} \ DOMAIN records[i] # {}
    THEN Outcome(<<>>, Raise("KeyError", "local"))
    ELSE SubmitRecords(stream_id,
                       [i \in DOMAIN records |-> records[i]["date"]],
                       [i \in DOMAIN records |-> records[Len(records) + 1 - i]["value"]],
                       wait, sub, w)

\* insert_records leaving out the records that lack a field
insert_records_SkipsMalformed(stream_id, records, wait, sub, w) ==
    LET good == SelectSeq(records, LAMBDA r : {"date", "value"} \subseteq DOMAIN r)
    IN  SubmitRecords(stream_id,
                      [i \in DOMAIN good |-> good[i]["date"]],
                      [i \in DOMAIN good |-> good[i]["value"]],
                      wait, sub, w)

insert_records(stream_id, records, wait, sub, w) ==
    IF \E i \in DOMAIN records : "date" \notin DOMAIN records[i]
    THEN Outcome(<<>>, Raise("KeyError", "local"))
    ELSE IF \E i \in DOMAIN records : "value" \notin DOMAIN records[i]
    THEN Outcome(<<>>, Raise("KeyError", "local"))
    ELSE
    LET dates == [i \in DOMAIN records |-> records[i]["date"]]
        values == [i \in DOMAIN records |-> records[i]["value"]]
        c1 == Call("InsertRecords",
                   <<stream_id, Slice_string(dates), Slice_float64(values)>>, sub)
        c2 == Call("WaitForTx", <<sub.ret>>, w)
    IN  IF sub.raised THEN Outcome(<<c1>>, Raise("GoError", "InsertRecords"))
        ELSE IF wait
             THEN IF w.raised THEN Outcome(<<c1, c2>>, Raise("GoError", "WaitForTx"))
                  ELSE Outcome(<<c1, c2>>, Return(sub.ret))
             ELSE Outcome(<<c1>>, Return(sub.ret))


\* dict() giving every key the value of the first item
dict_FirstValue(items) ==
    [k \in {items[i][1] : i \in DOMAIN items} |-> items[1][2]]

\* dict(record.items()): a later item of the same key replaces an earlier one
dict(items) ==
    [k \in {items[i][1] : i \in DOMAIN items} |->
        LET last == CHOOSE i \in DOMAIN items :
                        /\ items[i][1] = k
                        /\ \A j \in DOMAIN items : items[j][1] = k => j <= i
        IN  items[last][2]]

get_records(stream_id, data_provider, date_from, date_to, frozen_at, base_date, reply) ==
    LET c1 == Call("GetRecords",
                   <<stream_id, NoneToEmpty(data_provider), NoneToEmpty(date_from),
                     NoneToEmpty(date_to), NoneToEmpty(frozen_at),
                     NoneToEmpty(base_date)>>, reply)
        goSliceOfMaps == reply.ret
    IN  IF reply.raised THEN Outcome(<<c1>>, Raise("GoError", "GetRecords"))
        ELSE Outcome(<<c1>>,
                     Return([i \in DOMAIN goSliceOfMaps |-> dict(goSliceOfMaps[i])]))


\* the rows passed on as they are, without transposition
zip_Untransposed(args) == args

\* list(map(list, zip(*args))): zip stops at the shortest row
zip(args) ==
    LET lens == {Len(args[i]) : i \in DOMAIN args}
        n == IF args = <<>> THEN 0
             ELSE CHOOSE m \in lens : \A l \in lens : m <= l
    IN  [j \in 1..n |-> [i \in DOMAIN args |-> args[i][j]]]

AllStr(arg) == \A i \in DOMAIN arg : arg[i].t = "str"
AllFloat(arg) == \A i \in DOMAIN arg : arg[i].t = "float"

ArgsFromStrings(slice) == [kind |-> "strings", items |-> slice]
ArgsFromFloats(slice) == [kind |-> "floats", items |-> slice]

\* one pass of the typing loop over a column that has a supported type
VariadicCall(arg) ==
    IF AllStr(arg)
    THEN Call("ArgsFromStrings", <<Slice_string(arg)>>,
              Replies(ArgsFromStrings(Slice_string(arg))))
    ELSE Call("ArgsFromFloats", <<Slice_float64(arg)>>,
              Replies(ArgsFromFloats(Slice_float64(arg))))


\* execute_procedure submitting a second time when the first submit raises
execute_procedure_Retries(stream_id, procedure, args, wait, sub, w) ==
    LET transposed_args == zip(args)
        unsupported == {j \in DOMAIN transposed_args :
                           /\ ~AllStr(transposed_args[j])
                           /\ ~AllFloat(transposed_args[j])}
    IN  IF unsupported # {}
        THEN LET k == CHOOSE j \in unsupported : \A l \in unsupported : j <= l
             IN  Outcome([j \in 1..(k - 1) |-> VariadicCall(transposed_args[j])],
                         Raise("ValueError", "local"))
        ELSE
        LET calls == [j \in DOMAIN transposed_args |-> VariadicCall(transposed_args[j])]
            variadic_args == [j \in DOMAIN calls |-> calls[j].ret]
            c1 == Call("ExecuteProcedure",
                       <<stream_id, procedure>> \o variadic_args, sub)
            c2 == Call("WaitForTx", <<sub.ret>>, w)
        IN  IF sub.raised
            THEN Outcome(calls \o <<c1, c1>>, Raise("GoError", "ExecuteProcedure"))
            ELSE IF wait
                 THEN IF w.raised
                      THEN Outcome(calls \o <<c1, c2>>, Raise("GoError", "WaitForTx"))
                      ELSE Outcome(calls \o <<c1, c2>>, Return(sub.ret))
                 ELSE Outcome(calls \o <<c1>>, Return(sub.ret))

execute_procedure(stream_id, procedure, args, wait, sub, w) ==
    LET transposed_args == zip(args)
        unsupported == {j \in DOMAIN transposed_args :
                           /\ ~AllStr(transposed_args[j])
                           /\ ~AllFloat(transposed_args[j])}
    IN  IF unsupported # {}
        THEN LET k == CHOOSE j \in unsupported : \A l \in unsupported : j <= l
             IN  Outcome([j \in 1..(k - 1) |-> VariadicCall(transposed_args[j])],
                         Raise("ValueError", "local"))
        ELSE
        LET calls == [j \in DOMAIN transposed_args |-> VariadicCall(transposed_args[j])]
            variadic_args == [j \in DOMAIN calls |-> calls[j].ret]
            c1 == Call("ExecuteProcedure",
                       <<stream_id, procedure>> \o variadic_args, sub)
            c2 == Call("WaitForTx", <<sub.ret>>, w)
        IN  IF sub.raised
            THEN Outcome(calls \o <<c1>>, Raise("GoError", "ExecuteProcedure"))
            ELSE IF wait
                 THEN IF w.raised
                      THEN Outcome(calls \o <<c1, c2>>, Raise("GoError", "WaitForTx"))
                      ELSE Outcome(calls \o <<c1, c2>>, Return(sub.ret))
                 ELSE Outcome(calls \o <<c1>>, Return(sub.ret))

wait_for_tx(tx_hash, w) ==
    LET c1 == Call("WaitForTx", <<tx_hash>>, w)
    IN  IF w.raised THEN Outcome(<<c1>>, Raise("GoError", "WaitForTx"))
        ELSE Outcome(<<c1>>, Return("None"))

(* ------------------------- the state machine --------------------------- *)
SubmitFns == {"DeployStream", "InitStream", "InsertRecords", "ExecuteProcedure"}
MutatingOps == {"deploy_stream", "init_stream", "insert_records", "execute_procedure"}

Init ==
    /\ request = [op |-> "none"]
    /\ trace = <<>>
    /\ result = [kind |-> "none"]
    /\ ncalls = 0
    /\ submits = 0
    /\ localErrors = 0

\* what a recording double of truf_sdk and the caller see of one call
Observe(req, out) ==
    /\ request' = req
    /\ trace' = out.trace
    /\ result' = out.result

\* the running totals over the calls of the submitting methods
Count(out) ==
    /\ ncalls' = ncalls + 1
    /\ submits' = submits + Cardinality({i \in DOMAIN out.trace :
                                            out.trace[i].fn \in SubmitFns})
    /\ localErrors' = IF out.result.kind = "raise" /\ out.result.from = "local"
                      THEN localErrors + 1 ELSE localErrors

DeployStream(stream_id, stream_type, wait) ==
    /\ ncalls < MaxCalls
    /\ \E sub \in SubmitReplies, w \in WaitReplies :
          LET out == deploy_stream(stream_id, stream_type, wait, sub, w)
          IN  /\ Observe([op |-> "deploy_stream", stream_id |-> stream_id,
                          stream_type |-> stream_type, wait |-> wait], out)
              /\ Count(out)

StreamExists(stream_id, data_provider) ==
    /\ UNCHANGED <<ncalls, submits, localErrors>>
    /\ \E reply \in ExistsReplies :
          Observe([op |-> "stream_exists", stream_id |-> stream_id,
                   data_provider |-> data_provider],
                  stream_exists(stream_id, data_provider, reply))

InitStream(stream_id, wait) ==
    /\ ncalls < MaxCalls
    /\ \E sub \in SubmitReplies, w \in WaitReplies :
          LET out == init_stream(stream_id, wait, sub, w)
          IN  /\ Observe([op |-> "init_stream", stream_id |-> stream_id,
                          wait |-> wait], out)
              /\ Count(out)

InsertRecords(stream_id, records, wait) ==
    /\ ncalls < MaxCalls
    /\ \E sub \in SubmitReplies, w \in WaitReplies :
          LET out == insert_records(stream_id, records, wait, sub, w)
          IN  /\ Observe([op |-> "insert_records", stream_id |-> stream_id,
                          records |-> records, wait |-> wait], out)
              /\ Count(out)

GetRecords(stream_id, data_provider, date_from, date_to, frozen_at, base_date, replies) ==
    /\ UNCHANGED <<ncalls, submits, localErrors>>
    /\ \E reply \in replies :
          Observe([op |-> "get_records", stream_id |-> stream_id,
                   filters |-> <<data_provider, date_from, date_to, frozen_at, base_date>>],
                  get_records(stream_id, data_provider, date_from, date_to,
                              frozen_at, base_date, reply))

ExecuteProcedure(stream_id, procedure, args, wait) ==
    /\ ncalls < MaxCalls
    /\ \E sub \in SubmitReplies, w \in WaitReplies :
          LET out == execute_procedure(stream_id, procedure, args, wait, sub, w)
          IN  /\ Observe([op |-> "execute_procedure", stream_id |-> stream_id,
                          procedure |-> procedure, args |-> args, wait |-> wait], out)
              /\ Count(out)

WaitForTx(tx_hash) ==
    /\ UNCHANGED <<ncalls, submits, localErrors>>
    /\ \E w \in WaitReplies :
          Observe([op |-> "wait_for_tx", tx_hash |-> tx_hash], wait_for_tx(tx_hash, w))

(* A session on one client: up to MaxCalls submitting calls, arguments     *)
(* from a few representative values.                                       *)
SessionRecordLists ==
    { <<>>,
      <<[date |-> PyStr("2024-01-01"), value |-> PyFloat("1.5")]>>,
      <<[date |-> PyStr("2024-01-01"), value |-> PyFloat("1.5")],
        [date |-> PyStr("2024-01-02"), value |-> PyInt("2")]>>,
      <<[date |-> PyStr("2024-01-01"), value |-> PyFloat("1.5")],
        [date |-> PyStr("2024-01-02")]>>,
      <<[value |-> PyFloat("1.5")]>> }

SessionMatrices ==
    { <<>>,
      << <<PyStr("a"), PyFloat("1.5")>>, <<PyStr("b"), PyFloat("1.5")>> >>,
      << <<PyStr("a")>>, <<PyFloat("1.5")>> >>,
      << <<PyStr("a"), PyFloat("1.5")>>, <<PyStr("b")>> >>,
      << <<PyInt("2")>> >> }

SessionFilters == {None, Some("x")}
SessionRecordsReplies ==
    { [raised |-> TRUE, ret |-> <<>>],
      Replies(<<>>),
      Replies(<< <<<<"DateValue", "x">>, <<"Value", "y">>>> >>) }

Next ==
    \/ \E stream_id \in StreamIds, stream_type \in StreamTypes, wait \in BOOLEAN :
           DeployStream(stream_id, stream_type, wait)
    \/ \E stream_id \in StreamIds, data_provider \in OptStrings :
           StreamExists(stream_id, data_provider)
    \/ \E stream_id \in StreamIds, wait \in BOOLEAN :
           InitStream(stream_id, wait)
    \/ \E stream_id \in StreamIds, records \in SessionRecordLists, wait \in BOOLEAN :
           InsertRecords(stream_id, records, wait)
    \/ \E stream_id \in StreamIds, data_provider, date_from \in SessionFilters :
           GetRecords(stream_id, data_provider, date_from, None, None, None,
                      SessionRecordsReplies)
    \/ \E stream_id \in StreamIds, procedure \in Procedures,
          args \in SessionMatrices, wait \in BOOLEAN :
           ExecuteProcedure(stream_id, procedure, args, wait)
    \/ \E tx_hash \in Hashes :
           WaitForTx(tx_hash)

Spec == Init /\ [][Next]_vars

(* One call on a freshly constructed client, arguments from every value    *)
(* within the bounds.                                                      *)
Fresh == request.op = "none"

NextCall ==
    \/ /\ Fresh
       /\ \E stream_id \in StreamIds, stream_type \in StreamTypes, wait \in BOOLEAN :
             DeployStream(stream_id, stream_type, wait)
    \/ /\ Fresh
       /\ \E stream_id \in StreamIds, data_provider \in OptStrings :
             StreamExists(stream_id, data_provider)
    \/ /\ Fresh
       /\ \E stream_id \in StreamIds, wait \in BOOLEAN :
             InitStream(stream_id, wait)
    \/ /\ Fresh
       /\ \E stream_id \in StreamIds, records \in RecordLists, wait \in BOOLEAN :
             InsertRecords(stream_id, records, wait)
    \/ /\ Fresh
       /\ \E stream_id \in StreamIds,
             data_provider, date_from, date_to, frozen_at, base_date \in OptStrings :
             GetRecords(stream_id, data_provider, date_from, date_to,
                        frozen_at, base_date, RecordsReplies)
    \/ /\ Fresh
       /\ \E stream_id \in StreamIds, procedure \in Procedures,
             args \in Matrices, wait \in BOOLEAN :
             ExecuteProcedure(stream_id, procedure, args, wait)
    \/ /\ Fresh
       /\ \E tx_hash \in Hashes :
             WaitForTx(tx_hash)

SpecCall == Init /\ [][NextCall]_vars

(* ============================ properties =============================== *)
SubmitAt == {i \in DOMAIN trace : trace[i].fn \in SubmitFns}
WaitAt == {i \in DOMAIN trace : trace[i].fn = "WaitForTx"}
LocalError == result.kind = "raise" /\ result.from = "local"
IsMutating == request.op \in MutatingOps

\* C1: in a call of deploy_stream, init_stream, insert_records or
\* execute_procedure whose submit call returned hash h: with wait=True,
\* WaitForTx is called exactly once, with exactly h, right after the submit
\* call and as the last underlying call, and the call returns h when
\* WaitForTx returns; with wait=False, WaitForTx is not called and h is returned.
C1_WaitOnceWithHash ==
    (IsMutating /\ \E i \in SubmitAt : ~trace[i].raised) =>
        \E i \in SubmitAt :
            /\ ~trace[i].raised
            /\ IF request.wait
               THEN /\ WaitAt = {i + 1}
                    /\ Len(trace) = i + 1
                    /\ trace[i + 1].args = <<trace[i].ret>>
                    /\ (result.kind = "return" => result.val = trace[i].ret)
                    /\ (~trace[i + 1].raised => result.kind = "return")
               ELSE /\ WaitAt = {}
                    /\ result.kind = "return"
                    /\ result.val = trace[i].ret

C1_Witness ==
    /\ request.op = "execute_procedure"
    /\ request.wait
    /\ Len(trace) = 4
    /\ trace[3].fn = "ExecuteProcedure"
    /\ trace[4].fn = "WaitForTx"
    /\ result.kind = "return"
    /\ ncalls = 2

\* C2 (as stated): execute_procedure with a matrix in which some column
\* position holds both a string and a float raises a local error and makes
\* no underlying call at all (no ArgsFromStrings / ArgsFromFloats either).
HasMixedColumn(args) ==
    \E i, k \in DOMAIN args :
        \E j \in DOMAIN args[i] \cap DOMAIN args[k] :
            args[i][j].t = "str" /\ args[k][j].t = "float"

C2_MixedColumnNoUnderlyingCall ==
    (request.op = "execute_procedure" /\ HasMixedColumn(request.args)) =>
        /\ LocalError
        /\ trace = <<>>

\* C3 (as stated): execute_procedure accepts a column whose scalars are all
\* integers: no local error, and the column reaches ExecuteProcedure wrapped
\* as a float container.
AllInt(arg) == \A i \in DOMAIN arg : arg[i].t = "int"

C3_IntColumnAccepted ==
    (/\ request.op = "execute_procedure"
     /\ \A j \in DOMAIN zip(request.args) :
            LET arg == zip(request.args)[j] IN AllStr(arg) \/ AllFloat(arg) \/ AllInt(arg)) =>
        /\ ~LocalError
        /\ \E k \in DOMAIN trace :
              /\ trace[k].fn = "ExecuteProcedure"
              /\ \A j \in DOMAIN zip(request.args) :
                    AllInt(zip(request.args)[j]) => trace[k].args[2 + j].kind = "floats"

\* C4: insert_records on records that all have date and value calls
\* InsertRecords, and InsertRecords always receives the stream_id and two
\* sequences of the length of the records with dates[i] = r[i].date and
\* values[i] = r[i].value.
WellFormed(records) ==
    \A i \in DOMAIN records : {"date", "value"} \subseteq DOMAIN records[i]

C4_ParallelSequences ==
    request.op = "insert_records" =>
        /\ WellFormed(request.records) =>
              (trace # <<>> /\ trace[1].fn = "InsertRecords")
        /\ \A k \in DOMAIN trace : trace[k].fn = "InsertRecords" =>
              /\ trace[k].args[1] = request.stream_id
              /\ Len(trace[k].args[2]) = Len(request.records)
              /\ Len(trace[k].args[3]) = Len(request.records)
              /\ \A i \in DOMAIN request.records :
                    /\ trace[k].args[2][i] = request.records[i]["date"].v
                    /\ trace[k].args[3][i] = request.records[i]["value"].v

C4_Witness ==
    /\ request.op = "insert_records"
    /\ Len(request.records) = 2
    /\ WellFormed(request.records)
    /\ request.records[1]["date"] # request.records[2]["date"]
    /\ request.records[1]["value"] # request.records[2]["value"]
    /\ trace[1].fn = "InsertRecords"
    /\ Len(trace[1].args[2]) = 2

\* C5: get_records and stream_exists pass "" in the position of every filter
\* that is None and of every filter that is "", and pass a non-empty filter
\* unchanged in its own position.
Forwarded(opt) == IF opt \in {None, Some("")} THEN "" ELSE opt[1]

C5_NoneIsEmptyString ==
    /\ request.op = "get_records" =>
          /\ Len(trace) = 1
          /\ trace[1].fn = "GetRecords"
          /\ Len(trace[1].args) = 6
          /\ trace[1].args[1] = request.stream_id
          /\ \A k \in 1..5 : trace[1].args[k + 1] = Forwarded(request.filters[k])
    /\ request.op = "stream_exists" =>
          /\ Len(trace) = 1
          /\ trace[1].fn = "StreamExists"
          /\ trace[1].args = <<request.stream_id, Forwarded(request.data_provider)>>

C5_Witness ==
    /\ request.op = "get_records"
    /\ request.filters = <<None, Some(""), Some("x"), None, Some("x")>>
    /\ trace[1].args = <<request.stream_id, "", "", "x", "", "x">>

\* C6: get_records returns as many records as GetRecords returned, in the
\* same order, the i-th with exactly the field names and values of the i-th.
C6_RecordsPreserved ==
    (request.op = "get_records" /\ ~trace[1].raised) =>
        /\ result.kind = "return"
        /\ Len(result.val) = Len(trace[1].ret)
        /\ \A i \in DOMAIN trace[1].ret :
              LET goMap == trace[1].ret[i] IN
              /\ DOMAIN result.val[i] = {goMap[p][1] : p \in DOMAIN goMap}
              /\ \A p \in DOMAIN goMap : result.val[i][goMap[p][1]] = goMap[p][2]

C6_Witness ==
    /\ request.op = "get_records"
    /\ ~trace[1].raised
    /\ Len(trace[1].ret) = 2
    /\ trace[1].ret[1] = <<<<"Value", "x">>, <<"DateValue", "y">>>>
    /\ Len(trace[1].ret[2]) = 1
    /\ Len(result.val) = 2

\* C7 (as stated): a submitting call either returns the hash of the
\* transaction it submitted, or raises without having submitted one.
Submitted == \E i \in SubmitAt : ~trace[i].raised

C7_AllOrNothing ==
    IsMutating =>
        \/ /\ result.kind = "return"
           /\ \E i \in SubmitAt : ~trace[i].raised /\ result.val = trace[i].ret
        \/ /\ result.kind = "raise"
           /\ ~Submitted

\* C7 (amended): a submitting call either returns the hash of the
\* transaction it submitted, or raises without having submitted one, or,
\* with wait=True only, raises the error of WaitForTx after a submit that
\* succeeded.
C7_AllOrNothingUnlessWaitFails ==
    IsMutating =>
        \/ /\ result.kind = "return"
           /\ \E i \in SubmitAt : ~trace[i].raised /\ result.val = trace[i].ret
        \/ /\ result.kind = "raise"
           /\ ~Submitted
        \/ /\ result.kind = "raise"
           /\ Submitted
           /\ request.wait
           /\ result.from = "WaitForTx"
           /\ trace[Len(trace)].fn = "WaitForTx"
           /\ trace[Len(trace)].raised

C7_Witness ==
    /\ request.op = "deploy_stream"
    /\ request.wait
    /\ Submitted
    /\ result.kind = "raise"
    /\ result.from = "WaitForTx"

\* C8: every submitting call that passes local marshaling makes exactly one
\* submit call, so the underlying client has received as many submit calls
\* as there were such calls; an error of the underlying client ends the call
\* at the call that raised and reaches the caller.
C8_OneSubmitPerCall ==
    /\ submits = ncalls - localErrors
    /\ IsMutating =>
          /\ Cardinality(SubmitAt) = IF LocalError THEN 0 ELSE 1
          /\ (result.kind = "raise" /\ ~LocalError) =>
                /\ trace[Len(trace)].raised
                /\ trace[Len(trace)].fn = result.from
          /\ \A i \in DOMAIN trace : trace[i].raised => i = Len(trace) /\ result.kind = "raise"

C8_Witness ==
    /\ ncalls = 3
    /\ localErrors = 1
    /\ submits = 2
    /\ request.op = "insert_records"
    /\ result.kind = "raise"
    /\ result.from = "InsertRecords"

\* C9: insert_records on a sequence in which some record lacks date or
\* value raises, and calls neither InsertRecords nor WaitForTx.
C9_MalformedRecordNoSubmit ==
    (request.op = "insert_records" /\ ~WellFormed(request.records)) =>
        /\ LocalError
        /\ result.err = "KeyError"
        /\ \A k \in DOMAIN trace : trace[k].fn \notin {"InsertRecords", "WaitForTx"}

C9_Witness ==
    /\ request.op = "insert_records"
    /\ Len(request.records) = 2
    /\ DOMAIN request.records[1] = {"date", "value"}
    /\ DOMAIN request.records[2] = {"date"}
    /\ LocalError
    /\ trace = <<>>

\* C10: ExecuteProcedure receives, after stream_id and procedure, as many
\* containers as the shortest row is long (none for the empty matrix), the
\* j-th holding args[1][j], ..., args[m][j] in row order; rows of different
\* lengths are no error.
ShortestRow(args) ==
    IF args = <<>> THEN 0
    ELSE CHOOSE n \in 0..MaxCells :
            /\ \A i \in DOMAIN args : n <= Len(args[i])
            /\ \E i \in DOMAIN args : n = Len(args[i])

Typed(args, j) ==
    \/ \A i \in DOMAIN args : args[i][j].t = "str"
    \/ \A i \in DOMAIN args : args[i][j].t = "float"

C10_TransposeShortest ==
    request.op = "execute_procedure" =>
        LET args == request.args
            n == ShortestRow(args)
        IN  /\ (\A j \in 1..n : Typed(args, j)) =>
                  (~LocalError /\ \E k \in DOMAIN trace : trace[k].fn = "ExecuteProcedure")
            /\ \A k \in DOMAIN trace : trace[k].fn = "ExecuteProcedure" =>
                  /\ Len(trace[k].args) = 2 + n
                  /\ \A j \in 1..n :
                        /\ Len(trace[k].args[2 + j].items) = Len(args)
                        /\ \A i \in DOMAIN args :
                              trace[k].args[2 + j].items[i] = args[i][j].v

C10_Witness ==
    /\ request.op = "execute_procedure"
    /\ request.args = << <<PyStr("a"), PyFloat("1.5")>>, <<PyStr("b")>> >>
    /\ Len(trace) >= 2
    /\ trace[2].fn = "ExecuteProcedure"
    /\ trace[2].args[3].items = <<"a", "b">>

====
